---- MODULE Spec2Model ----
(***************************************************************************)
(* A model of GamesmanNova's B+ page cache (src/src/database/bplus/cache): *)
(* the Page buffer (page.rs), the Cache with its lookup / fetch / evict    *)
(* protocol (mod.rs), the CacheManager facade (manager.rs) and the error   *)
(* taxonomy (error.rs).                                                    *)
(***************************************************************************)
EXTENDS Integers, Sequences, FiniteSets, TLC

(***************************************************************************)
(* page.rs                                                                 *)
(***************************************************************************)

\* const PAGE_SIZE: usize = 4096, scaled down: the page operations are written
\* in terms of PAGE_SIZE alone, and every offset and length from 0 to beyond
\* PAGE_SIZE is tried.
PAGE_SIZE == 4

\* usize::MAX of the model's machine word (16 bits wide).
USIZE_MAX == 65535

\* pub type Byte = u8;
Byte == 0..255

\* A page allocated without zeroing its last byte.
allocate_unzeroed ==
    [data |-> [i \in 0..(PAGE_SIZE - 1) |-> IF i = PAGE_SIZE - 1 THEN 255 ELSE 0],
     dirty |-> FALSE]

\* Page::allocate: data: Box::new([0; PAGE_SIZE]), dirty: false.
\* data is indexed 0..PAGE_SIZE-1 as the array is.
allocate == [data |-> [i \in 0..(PAGE_SIZE - 1) |-> 0], dirty |-> FALSE]

\* Result values of the page operations: Ok(v) or Err(PageError::kind(detail)).
Ok(v) == [ok |-> TRUE, val |-> v]
Err(kind, detail) == [ok |-> FALSE, err |-> kind, detail |-> detail]

\* usize addition (seek + length): wraps at the word size.
usize_add(a, b) == IF a > USIZE_MAX - b THEN a - (USIZE_MAX - b) - 1 ELSE a + b

\* read_at with the third check off by one (>= for >): a read that ends exactly
\* at the end of the page is refused.
read_at_ge(p, seek, length) ==
    IF seek > PAGE_SIZE THEN Err("OutOfBoundsRead", "Seek")
    ELSE IF length > PAGE_SIZE THEN Err("OutOfBoundsRead", "Length")
    ELSE IF usize_add(seek, length) >= PAGE_SIZE
         THEN Err("OutOfBoundsRead", "Seek + Length")
    ELSE Ok([i \in 1..length |-> p.data[seek + i - 1]])

\* Page::read_at(&self, seek, length) -> Result<Vec<Byte>, PageError>
\* The three checks are made in the source's order; the Vec is indexed 1..length.
read_at(p, seek, length) ==
    IF seek > PAGE_SIZE THEN Err("OutOfBoundsRead", "Seek")
    ELSE IF length > PAGE_SIZE THEN Err("OutOfBoundsRead", "Length")
    ELSE IF usize_add(seek, length) > PAGE_SIZE
         THEN Err("OutOfBoundsRead", "Seek + Length")
    ELSE Ok([i \in 1..length |-> p.data[seek + i - 1]])

\* write_copy with the vector copied back to front.
write_copy_reversed(p, seek, data) ==
    [data  |-> [i \in 0..(PAGE_SIZE - 1) |->
                   IF i >= seek /\ i < seek + Len(data)
                   THEN data[Len(data) - (i - seek)] ELSE p.data[i]],
     dirty |-> TRUE]

\* write_copy that rebuilds the page from zeroes around the written range.
write_copy_zeroed(p, seek, data) ==
    [data  |-> [i \in 0..(PAGE_SIZE - 1) |->
                   IF i >= seek /\ i < seek + Len(data)
                   THEN data[i - seek + 1] ELSE 0],
     dirty |-> TRUE]

\* write_copy that leaves the dirty flag as it found it.
write_copy_flag_kept(p, seek, data) ==
    [data  |-> [i \in 0..(PAGE_SIZE - 1) |->
                   IF i >= seek /\ i < seek + Len(data)
                   THEN data[i - seek + 1] ELSE p.data[i]],
     dirty |-> p.dirty]

\* The page after write_at's copy_from_slice and dirty = true.
write_copy(p, seek, data) ==
    [data  |-> [i \in 0..(PAGE_SIZE - 1) |->
                   IF i >= seek /\ i < seek + Len(data)
                   THEN data[i - seek + 1] ELSE p.data[i]],
     dirty |-> TRUE]

\* write_at that checks the end of the range only after copying the bytes that
\* fit into the page.
write_at_partial(p, seek, data) ==
    IF seek > PAGE_SIZE
    THEN [res |-> Err("OutOfBoundsWrite", "Seek"), page |-> p]
    ELSE IF Len(data) > PAGE_SIZE
    THEN [res |-> Err("OutOfBoundsWrite", "Length"), page |-> p]
    ELSE IF usize_add(seek, Len(data)) > PAGE_SIZE
    THEN [res |-> Err("OutOfBoundsWrite", "Seek + Length"),
          page |-> write_copy(p, seek, SubSeq(data, 1, PAGE_SIZE - seek))]
    ELSE [res |-> Ok(<<>>), page |-> write_copy(p, seek, data)]

\* write_at with the third check off by one (>= for >): a write that ends
\* exactly at the end of the page is refused.
write_at_ge(p, seek, data) ==
    IF seek > PAGE_SIZE
    THEN [res |-> Err("OutOfBoundsWrite", "Seek"), page |-> p]
    ELSE IF Len(data) > PAGE_SIZE
    THEN [res |-> Err("OutOfBoundsWrite", "Length"), page |-> p]
    ELSE IF usize_add(seek, Len(data)) >= PAGE_SIZE
    THEN [res |-> Err("OutOfBoundsWrite", "Seek + Length"), page |-> p]
    ELSE [res |-> Ok(<<>>), page |-> write_copy(p, seek, data)]

\* write_at that copies the bytes and leaves the dirty flag alone.
write_at_clean(p, seek, data) ==
    IF seek > PAGE_SIZE
    THEN [res |-> Err("OutOfBoundsWrite", "Seek"), page |-> p]
    ELSE IF Len(data) > PAGE_SIZE
    THEN [res |-> Err("OutOfBoundsWrite", "Length"), page |-> p]
    ELSE IF usize_add(seek, Len(data)) > PAGE_SIZE
    THEN [res |-> Err("OutOfBoundsWrite", "Seek + Length"), page |-> p]
    ELSE [res |-> Ok(<<>>),
          page |-> [write_copy(p, seek, data) EXCEPT !.dirty = p.dirty]]

\* Page::write_at(&mut self, seek, data) -> Result<(), PageError>
\* Returns the result and the page as the call leaves it.
write_at(p, seek, data) ==
    IF seek > PAGE_SIZE
    THEN [res |-> Err("OutOfBoundsWrite", "Seek"), page |-> p]
    ELSE IF Len(data) > PAGE_SIZE
    THEN [res |-> Err("OutOfBoundsWrite", "Length"), page |-> p]
    ELSE IF usize_add(seek, Len(data)) > PAGE_SIZE
    THEN [res |-> Err("OutOfBoundsWrite", "Seek + Length"), page |-> p]
    ELSE [res |-> Ok(<<>>), page |-> write_copy(p, seek, data)]

\* Page::is_dirty(&self) -> bool
is_dirty(p) == p.dirty

(***************************************************************************)
(* error.rs                                                                *)
(***************************************************************************)

\* CacheError::PoisonedCacheEntry, the image of a PoisonError of either guard
\* (impl From<PoisonError<..>> for CacheError).
PoisonedCacheEntry == Err("PoisonedCacheEntry", <<>>)

\* CacheError::FetchFailure(id, attempts)
FetchFailure(id, attempts) == Err("FetchFailure", <<id, attempts>>)

\* CacheError::LookupFailure(id)
LookupFailure(id) == Err("LookupFailure", <<id>>)

\* From<PageError> for CacheError with the two out-of-bounds arms exchanged.
PageToCacheError_swapped(e) ==
    IF e.err = "OutOfBoundsRead" THEN Err("FailedCacheWrite", e.detail)
    ELSE IF e.err = "OutOfBoundsWrite" THEN Err("FailedCacheRead", e.detail)
    ELSE Err("Unknown", <<>>)

\* impl From<PageError> for CacheError
PageToCacheError(e) ==
    IF e.err = "OutOfBoundsRead" THEN Err("FailedCacheRead", e.detail)
    ELSE IF e.err = "OutOfBoundsWrite" THEN Err("FailedCacheWrite", e.detail)
    ELSE Err("Unknown", <<>>)

\* From<CacheError> for PageError that takes FetchFailure for a missing page
\* too.
CacheToPageError_notfound(e) ==
    IF e.err \in {"LookupFailure", "FetchFailure"}
    THEN Err("PageNotFound", <<e.detail[1]>>)
    ELSE Err("Unknown", <<>>)

\* impl From<CacheError> for PageError
CacheToPageError(e) ==
    IF e.err = "LookupFailure" THEN Err("PageNotFound", e.detail)
    ELSE Err("Unknown", <<>>)

(***************************************************************************)
(* State.                                                                  *)
(***************************************************************************)

VARIABLES
    page,      \* the Page the page operations act on
    pageCall,  \* the last page operation called, with its arguments
    pageRet,   \* what that operation returned
    pageOps,   \* number of page operations so far
    wrote,     \* a write_at on the page has returned Ok since allocate
    cache,     \* struct Cache: last_evict, capacity, max_fetch_attempts, entries
    locks,     \* the RwLock around each entry: readers, writer, poisoned
    build,     \* how the crate was built: overflow_checks, place
    th,        \* each thread: its call, its position in it, its locals
    budget,    \* calls the threads may still make
    evicted,   \* evictions so far: how many, and the last one's victim index
    loaded,    \* per slot: {id} once the store's page for id was written to it, {} before
    hist       \* the ids requested so far, in order (kept when one thread runs)

pageVars == <<page, pageCall, pageRet, pageOps, wrote>>
cacheVars == <<cache, locks, build, th, budget, evicted, loaded, hist>>
vars == <<page, pageCall, pageRet, pageOps, wrote,
          cache, locks, build, th, budget, evicted, loaded, hist>>

(***************************************************************************)
(* mod.rs: CacheEntry, Cache::new                                          *)
(***************************************************************************)

Threads == {"t1", "t2"}
None == "none"

\* CacheEntry::new: valid: false, id: 0, page: Page::allocate()
CacheEntry_new == [valid |-> FALSE, id |-> 0, page |-> allocate]

\* An RwLock nobody holds.
RwLock_new == [readers |-> {}, writer |-> None, poisoned |-> FALSE]

\* locked_entry.read() returns once no writer holds the lock.
CanRead(l) == l.writer = None

\* A write() that waits for the writer only and not for the readers.
CanWrite_shared(l) == l.writer = None

\* locked_entry.write() returns once nobody holds the lock.
CanWrite(l) == l.writer = None /\ l.readers = {}

\* Cache::new(capacity, policy, max_fetch_attempts, file_manager):
\* last_evict: usize::MAX, capacity entries made by CacheEntry::new.
Cache_new(capacity, policy, max_fetch_attempts) ==
    [policy             |-> policy,
     last_evict         |-> USIZE_MAX,
     capacity           |-> capacity,
     max_fetch_attempts |-> max_fetch_attempts,
     entries            |-> [s \in 0..(capacity - 1) |-> CacheEntry_new]]

\* The page ids for which the backing store answers with one byte more than a
\* page holds.
OversizePageIds == {4}

\* FileManager::fetch_page_data_from_disk(id): one page's worth of bytes,
\* different for every id (the body is todo!(); this is its contract), and a
\* Vec that is too long for the ids of a store gone wrong.
fetch_page_data_from_disk(id) ==
    [i \in 1..(IF id \in OversizePageIds THEN PAGE_SIZE + 1 ELSE PAGE_SIZE) |->
        (16 * (id + 1) + i - 1) % 256]

\* A thread that is in no call.
IdleThread ==
    [pc |-> "idle", op |-> None, id |-> 0, seek |-> 0, arg |-> <<>>,
     iter |-> 0, idx |-> 0, tmp |-> 0, evictions |-> 0, written |-> FALSE,
     ret |-> Ok(<<>>)]

\* A thread that has panicked with message msg: it makes no further step.
Panicked(msg) ==
    [IdleThread EXCEPT !.pc = "panicked", !.ret = Err("panic", msg)]

\* enum EvictionPolicy { FIFO, LFU, LRU, MRU }
EvictionPolicy == {"FIFO", "LFU", "LRU", "MRU"}

ManagerOps == {"read_page_at", "write_page_at"}
MutOps == {"fetch_mut_entry", "write_page_at"}
Ops == {"fetch_entry", "fetch_mut_entry", "read_page_at", "write_page_at"}

Slots == 0..(cache.capacity - 1)

(***************************************************************************)
(* mod.rs: fetch_entry / fetch_mut_entry, lookup, evict_and_replace;       *)
(* manager.rs: read_page_at / write_page_at.                               *)
(* A thread's pc names the next access it makes to shared state.           *)
(***************************************************************************)

\* A thread whose call has returned v: it is in no call, and v is kept.
Returned(v) == [IdleThread EXCEPT !.ret = v]

\* The call ends with the cache error e: fetch_entry / fetch_mut_entry return
\* Err(e); read_page_at / write_page_at convert it with `?` (From<CacheError>
\* for PageError) and return that.
FetchFailed(r, e) ==
    Returned(IF r.op \in ManagerOps THEN CacheToPageError(e) ELSE e)

\* The loop head with an inclusive range (0..=max_fetch_attempts): one
\* iteration too many.
NextIter_inclusive(r) ==
    IF r.iter <= cache.max_fetch_attempts
    THEN [r EXCEPT !.pc = "lookup", !.iter = @ + 1, !.idx = 0, !.tmp = 0]
    ELSE [r EXCEPT !.pc = "exhausted", !.idx = 0, !.tmp = 0]

\* The head of `for _ in 0..self.max_fetch_attempts`: the next iteration starts
\* with lookup at index 0, or the loop is over.
NextIter(r) ==
    IF r.iter < cache.max_fetch_attempts
    THEN [r EXCEPT !.pc = "lookup", !.iter = @ + 1, !.idx = 0, !.tmp = 0]
    ELSE [r EXCEPT !.pc = "exhausted", !.idx = 0, !.tmp = 0]

\* lookup's test negated (!= for ==).
lookup_matches_ne(e, id) == e.id # id

\* lookup's test of an entry: (*read_guard).get_id() == id
lookup_matches(e, id) == e.id = id

\* The locked entry returned without the second look at its id.
guard_matches_unchecked(e, id) == TRUE

\* fetch_entry's test of the locked entry: guard.get_id() == id
guard_matches(e, id) == e.id = id

\* The value of hist when no history is kept.
NoHist == <<-1>>

\* Some slot holds id with the byte a write_page_at(id, 0, <<170>>) put at
\* its offset 0, and no eviction has the slot in hand: the write succeeded and
\* the slot has not been evicted since (an eviction refills the whole page).
WrittenAndResident(id) ==
    \E s \in Slots : /\ cache.entries[s].id = id
                     /\ locks[s].writer = None
                     /\ cache.entries[s].page.data[0] = 170

\* A call of one of the operations ops begins, for one of the page ids ids.
\* The call notes whether it follows a write to its page that is still there.
CallOf(t, ops, ids) ==
    /\ th[t].pc = "idle"
    /\ budget > 0
    /\ budget' = budget - 1
    /\ \E op \in ops, id \in ids, seek \in {0, PAGE_SIZE} :
         /\ (op \notin ManagerOps => seek = 0)
         /\ hist' = IF hist = NoHist THEN hist ELSE Append(hist, id)
         /\ th' = [th EXCEPT ![t] =
              NextIter([IdleThread EXCEPT
                  !.op = op, !.id = id, !.seek = seek,
                  !.written = WrittenAndResident(id),
                  !.arg = IF op = "read_page_at" THEN <<1>>
                          ELSE IF op = "write_page_at" THEN <<170>>
                          ELSE <<>>])]
    /\ UNCHANGED <<cache, locks, build, evicted, loaded, pageVars>>

\* A call of one of the four operations begins.
Call(t, ids) == CallOf(t, Ops, ids)

\* A call of CacheManager::read_page_at / write_page_at begins.
ManagerCall(t, ids) == CallOf(t, ManagerOps, ids)

\* After the loop: Err(CacheError::FetchFailure(id, self.max_fetch_attempts)).
Exhausted(t) ==
    LET r == th[t]
    IN /\ r.pc = "exhausted"
       /\ th' = [th EXCEPT ![t] =
            FetchFailed(r, FetchFailure(r.id, cache.max_fetch_attempts))]
       /\ UNCHANGED <<cache, locks, build, budget, evicted, loaded, hist, pageVars>>

\* lookup: one turn of `for idx in 0..self.capacity`: read-lock entry idx,
\* compare its id, release. A poisoned lock makes lookup return Err, which
\* the caller's `Err(_)` arm takes like LookupFailure: evict_and_replace.
Lookup(t) ==
    LET r == th[t]
        s == r.idx
    IN /\ r.pc = "lookup"
       /\ CanRead(locks[s])
       /\ th' = [th EXCEPT ![t] =
            IF locks[s].poisoned THEN [r EXCEPT !.pc = "evict_load", !.idx = 0, !.evictions = @ + 1]
            ELSE IF lookup_matches(cache.entries[s], r.id)
                 THEN [r EXCEPT !.pc = "hit"]
            ELSE IF s + 1 < cache.capacity THEN [r EXCEPT !.idx = s + 1]
            ELSE [r EXCEPT !.pc = "evict_load", !.idx = 0, !.evictions = @ + 1]]
       /\ UNCHANGED <<cache, locks, build, budget, evicted, loaded, hist, pageVars>>

\* The Ok(idx) arm: lock the entry (read() for fetch_entry, write() for
\* fetch_mut_entry); a poisoned lock returns PoisonedCacheEntry; a guard whose
\* id is the requested one is returned; any other is dropped and the loop
\* goes on.
Hit(t) ==
    LET r == th[t]
        s == r.idx
        mut == r.op \in MutOps
    IN /\ r.pc = "hit"
       /\ IF mut THEN CanWrite(locks[s]) ELSE CanRead(locks[s])
       /\ IF locks[s].poisoned
          THEN /\ th' = [th EXCEPT ![t] = FetchFailed(r, PoisonedCacheEntry)]
               /\ locks' = locks
          ELSE IF guard_matches(cache.entries[s], r.id)
          THEN /\ th' = [th EXCEPT ![t] = [r EXCEPT !.pc = "holding"]]
               /\ locks' = [locks EXCEPT ![s] =
                    IF mut THEN [@ EXCEPT !.writer = t]
                    ELSE [@ EXCEPT !.readers = @ \cup {t}]]
          ELSE /\ th' = [th EXCEPT ![t] = NextIter(r)]
               /\ locks' = locks
       /\ UNCHANGED <<cache, build, budget, evicted, loaded, hist, pageVars>>

\* evict_and_replace: `match self.policy`: the LFU, LRU and MRU arms are
\* todo!(), which panics ("not yet implemented"); the FIFO arm starts with
\* `self.last_evict += 1`, which reads the cursor ...
EvictLoad(t) ==
    LET r == th[t]
    IN /\ r.pc = "evict_load"
       /\ th' = [th EXCEPT ![t] =
            IF cache.policy = "FIFO"
            THEN [r EXCEPT !.pc = "evict_store", !.tmp = cache.last_evict]
            ELSE Panicked("not yet implemented")]
       /\ UNCHANGED <<cache, locks, build, budget, evicted, loaded, hist, pageVars>>

\* ... and writes it back plus one: from usize::MAX that wraps to 0, or panics
\* ("attempt to add with overflow") in a build with overflow checks.
EvictStore(t) ==
    LET r == th[t]
    IN /\ r.pc = "evict_store"
       /\ IF r.tmp = USIZE_MAX /\ build.overflow_checks
          THEN /\ th' = [th EXCEPT ![t] =
                    Panicked("attempt to add with overflow")]
               /\ cache' = cache
          ELSE /\ th' = [th EXCEPT ![t] =
                    [r EXCEPT !.pc = "evict_wrap", !.tmp = 0]]
               /\ cache' = [cache EXCEPT !.last_evict = usize_add(r.tmp, 1)]
       /\ UNCHANGED <<locks, build, budget, evicted, loaded, hist, pageVars>>

\* The cursor set back one slot early (capacity - 1 for capacity).
cursor_wraps_early(c) == c.last_evict = c.capacity - 1

\* self.last_evict == self.capacity
cursor_wraps(c) == c.last_evict = c.capacity

\* if self.last_evict == self.capacity { self.last_evict = 0; }
EvictWrap(t) ==
    LET r == th[t]
    IN /\ r.pc = "evict_wrap"
       /\ th' = [th EXCEPT ![t] = [r EXCEPT !.pc = "evict_lock"]]
       /\ cache' = IF cursor_wraps(cache)
                   THEN [cache EXCEPT !.last_evict = 0]
                   ELSE cache
       /\ UNCHANGED <<locks, build, budget, evicted, loaded, hist, pageVars>>

\* match self.entries.get(self.last_evict): the victim is write-locked
\* (PoisonedCacheEntry if the lock is poisoned) and
\* `let entry: CacheEntry = *(locked_entry.write()?); entry.id = id;` runs.
\* Built by place, entry is the slot behind the guard, which is held until
\* the page is filled. Built by value, entry is a copy of the slot and the
\* guard is a temporary dropped at the end of the statement: the id lands in
\* the copy, the slot stays as it was and its lock is free again. No arm
\* takes None (an index past the entries): the thread stops there.
EvictLock(t) ==
    LET r == th[t]
        v == cache.last_evict
    IN /\ r.pc = "evict_lock"
       /\ IF v \notin Slots
          THEN /\ th' = [th EXCEPT ![t] = Panicked("no entry")]
               /\ UNCHANGED <<cache, locks, evicted>>
          ELSE /\ CanWrite(locks[v])
               /\ IF locks[v].poisoned
                  THEN /\ th' = [th EXCEPT ![t] =
                            FetchFailed(r, PoisonedCacheEntry)]
                       /\ UNCHANGED <<cache, locks, evicted>>
                  ELSE /\ evicted' = [n |-> evicted.n + 1, victim |-> v]
                       /\ th' = [th EXCEPT ![t] =
                            [r EXCEPT !.pc = "evict_fill", !.idx = v]]
                       /\ IF build.place
                          THEN /\ locks' = [locks EXCEPT ![v].writer = t]
                               /\ cache' = [cache EXCEPT
                                              !.entries[v].id = r.id]
                          ELSE UNCHANGED <<cache, locks>>
       /\ UNCHANGED <<build, budget, loaded, hist, pageVars>>

\* let data = self.file_manager.fetch_page_data_from_disk(id);
\* entry.page.write_at(0, data)?; Ok(()). Built by place the bytes land in the
\* slot behind the held guard, which is dropped as the arm ends. Built by
\* value they land in the copy, which is dropped: no lock is held and the
\* slot is not touched. A Vec longer than the page makes write_at fail, and
\* `?` returns the error as a CacheError.
EvictFill(t) ==
    LET r == th[t]
        v == r.idx
        w == write_at(cache.entries[v].page, 0, fetch_page_data_from_disk(r.id))
    IN /\ r.pc = "evict_fill"
       /\ IF build.place
          THEN /\ cache' = [cache EXCEPT !.entries[v].page = w.page]
               /\ locks' = [locks EXCEPT ![v].writer = None]
               /\ loaded' = [loaded EXCEPT ![v] =
                               IF w.res.ok THEN {r.id} ELSE {}]
          ELSE UNCHANGED <<cache, locks, loaded>>
       /\ th' = [th EXCEPT ![t] =
            IF w.res.ok THEN NextIter(r)
            ELSE FetchFailed(r, PageToCacheError(w.res))]
       /\ UNCHANGED <<build, budget, evicted, hist, pageVars>>

\* A guard that is leaked (its Box forgotten) instead of dropped.
Release_leaked(l, t) == l

\* The lock of slot s after thread t dropped its guard.
Release(l, t) ==
    [l EXCEPT !.readers = @ \ {t},
              !.writer = IF @ = t THEN None ELSE @]

\* read_page_at that passes the page's error through the cache tier's error
\* type before returning it (PageError -> CacheError -> PageError).
ReadPageAt_wrapped(t) ==
    LET r == th[t]
        s == r.idx
        v == read_at(cache.entries[s].page, r.seek, r.arg[1])
    IN /\ r.pc = "holding" /\ r.op = "read_page_at"
       /\ th' = [th EXCEPT ![t] =
            Returned(IF v.ok THEN v
                     ELSE CacheToPageError(PageToCacheError(v)))]
       /\ locks' = [locks EXCEPT ![s] = Release(@, t)]
       /\ UNCHANGED <<cache, build, budget, evicted, loaded, hist, pageVars>>

\* CacheManager::read_page_at after fetch_entry returned the guard:
\* (*guard).page.read_at(seek, length); the guard is dropped on return.
ReadPageAt(t) ==
    LET r == th[t]
        s == r.idx
    IN /\ r.pc = "holding" /\ r.op = "read_page_at"
       /\ th' = [th EXCEPT ![t] =
            Returned(read_at(cache.entries[s].page, r.seek, r.arg[1]))]
       /\ locks' = [locks EXCEPT ![s] = Release(@, t)]
       /\ UNCHANGED <<cache, build, budget, evicted, loaded, hist, pageVars>>

\* CacheManager::write_page_at after fetch_mut_entry returned the guard:
\* (*guard).page.write_at(seek, data); the guard is dropped on return.
WritePageAt(t) ==
    LET r == th[t]
        s == r.idx
        w == write_at(cache.entries[s].page, r.seek, r.arg)
    IN /\ r.pc = "holding" /\ r.op = "write_page_at"
       /\ cache' = [cache EXCEPT !.entries[s].page = w.page]
       /\ th' = [th EXCEPT ![t] = Returned(w.res)]
       /\ locks' = [locks EXCEPT ![s] = Release(@, t)]
       /\ UNCHANGED <<build, budget, evicted, loaded, hist, pageVars>>

\* A caller of fetch_entry / fetch_mut_entry drops the guard it was given.
DropGuard(t) ==
    LET r == th[t]
        s == r.idx
    IN /\ r.pc = "holding" /\ r.op \notin ManagerOps
       /\ th' = [th EXCEPT ![t] = Returned(Ok(<<>>))]
       /\ locks' = [locks EXCEPT ![s] = Release(@, t)]
       /\ UNCHANGED <<cache, build, budget, evicted, loaded, hist, pageVars>>

\* A caller of fetch_mut_entry panics while it holds the write guard: the
\* unwinding drops the guard and the RwLock is poisoned.
GuardHolderPanics(t) ==
    LET r == th[t]
        s == r.idx
    IN /\ r.pc = "holding" /\ r.op = "fetch_mut_entry"
       /\ th' = [th EXCEPT ![t] = Panicked("caller")]
       /\ locks' = [locks EXCEPT ![s] =
                      [Release(@, t) EXCEPT !.poisoned = TRUE]]
       /\ UNCHANGED <<cache, build, budget, evicted, loaded, hist, pageVars>>

\* One step of thread t.
Step(t, ids) ==
    \/ Call(t, ids)
    \/ Exhausted(t)
    \/ Lookup(t)
    \/ Hit(t)
    \/ EvictLoad(t)
    \/ EvictStore(t)
    \/ EvictWrap(t)
    \/ EvictLock(t)
    \/ EvictFill(t)
    \/ ReadPageAt(t)
    \/ WritePageAt(t)
    \/ DropGuard(t)
    \/ GuardHolderPanics(t)

\* One step of a thread t that uses the cache through CacheManager only.
ManagerStep(t, ids) ==
    \/ ManagerCall(t, ids)
    \/ Exhausted(t)
    \/ Lookup(t)
    \/ Hit(t)
    \/ EvictLoad(t)
    \/ EvictStore(t)
    \/ EvictWrap(t)
    \/ EvictLock(t)
    \/ EvictFill(t)
    \/ ReadPageAt(t)
    \/ WritePageAt(t)

(***************************************************************************)
(* Specifications.                                                         *)
(***************************************************************************)

\* Calls made in a run of the concurrent specification.
MaxCalls == 3

\* Calls made in a run of the single-threaded specification.
SeqMaxCalls == 4

\* Configurations and requested ids of the concurrent specification.
Capacities == {1, 2}
AttemptBudgets == {0, 1, 2}
PageIds == {0, 1}

\* Configurations and requested ids of the single-threaded specification.
SeqCapacities == {1, 2, 3}
SeqAttemptBudgets == {0, 1, 2, 3}
SeqPageIds == {0, 1, 2, 3}

\* The state after Cache::new(capacity, policy, max_fetch_attempts, ..).
CacheInit(capacities, policies, attempts, calls, h) ==
    /\ cache \in {Cache_new(c, p, a) :
                    c \in capacities, p \in policies, a \in attempts}
    /\ locks = [s \in Slots |-> RwLock_new]
    /\ build \in [overflow_checks : BOOLEAN, place : BOOLEAN]
    /\ th = [t \in Threads |-> IdleThread]
    /\ budget = calls
    /\ evicted = [n |-> 0, victim |-> 0]
    /\ loaded = [s \in Slots |-> {}]
    /\ hist = h

\* The page specification: one page, no cache in use.
PageIdle ==
    /\ page = allocate
    /\ pageCall = [op |-> None]
    /\ pageRet = Ok(<<>>)
    /\ pageOps = 0
    /\ wrote = FALSE

\* Number of page operations applied to one page in a run.
MaxPageOps == 3

\* Every offset within the page, the two past its end, and the largest usize.
Seeks == 0..(PAGE_SIZE + 1) \cup {USIZE_MAX}

\* Every length of a read or of a written vector up to one past the page size.
Lengths == 0..(PAGE_SIZE + 1)

\* First bytes of the written vectors.
FillBytes == {1, 254}

\* A vector of n bytes counting up from b (wrapping at 256): its bytes differ,
\* so that a misplaced or reversed copy shows.
MakeData(b, n) == [i \in 1..n |-> (b + i - 1) % 256]

PageInit ==
    /\ PageIdle
    /\ cache = Cache_new(1, "FIFO", 0)
    /\ locks = [s \in Slots |-> RwLock_new]
    /\ build = [overflow_checks |-> FALSE, place |-> FALSE]
    /\ th = [t \in Threads |-> IdleThread]
    /\ budget = 0
    /\ evicted = [n |-> 0, victim |-> 0]
    /\ loaded = [s \in Slots |-> {}]
    /\ hist = NoHist

\* A call page.read_at(seek, length).
PageReadAt ==
    /\ pageOps < MaxPageOps
    /\ \E seek \in Seeks, length \in Lengths :
         /\ pageCall' = [op |-> "read_at", seek |-> seek, length |-> length]
         /\ pageRet' = read_at(page, seek, length)
    /\ page' = page
    /\ wrote' = wrote
    /\ pageOps' = pageOps + 1
    /\ UNCHANGED cacheVars

\* A call page.write_at(seek, data).
PageWriteAt ==
    /\ pageOps < MaxPageOps
    /\ \E seek \in Seeks, n \in Lengths, b \in FillBytes :
         LET w == write_at(page, seek, MakeData(b, n))
         IN /\ pageCall' = [op |-> "write_at", seek |-> seek,
                            data |-> MakeData(b, n)]
            /\ pageRet' = w.res
            /\ page' = w.page
            /\ wrote' = (wrote \/ w.res.ok)
    /\ pageOps' = pageOps + 1
    /\ UNCHANGED cacheVars

\* A call page.is_dirty().
PageIsDirty ==
    /\ pageOps < MaxPageOps
    /\ pageCall' = [op |-> "is_dirty"]
    /\ pageRet' = Ok(is_dirty(page))
    /\ page' = page
    /\ wrote' = wrote
    /\ pageOps' = pageOps + 1
    /\ UNCHANGED cacheVars

PageNext == PageReadAt \/ PageWriteAt \/ PageIsDirty

\* Operations on one page.
PageSpec == PageInit /\ [][PageNext]_vars

\* Number of conversions applied in a run.
MaxErrOps == 3

\* The page ids and attempt counts carried by the errors converted.
ErrPageIds == 0..3
ErrAttempts == 0..2

\* enum PageError: the two variants that carry a String, with the strings
\* read_at and write_at give them ...
BoundsErrors ==
    {Err(k, d) : k \in {"OutOfBoundsRead", "OutOfBoundsWrite"},
                 d \in {"Seek", "Length", "Seek + Length"}}

\* ... and the other two.
OtherPageErrors ==
    {Err("PageNotFound", <<id>>) : id \in ErrPageIds} \cup {Err("Unknown", <<>>)}

\* enum CacheError: every variant.
CacheErrors ==
    {LookupFailure(id) : id \in ErrPageIds}
    \cup {FetchFailure(id, a) : id \in ErrPageIds, a \in ErrAttempts}
    \cup {Err(k, <<id>>) : k \in {"FailedCacheRead", "FailedCacheWrite"},
                           id \in ErrPageIds}
    \cup {PoisonedCacheEntry, Err("Unknown", <<>>)}

\* CacheError::from(e) for a PageError e.
ErrFromPage ==
    /\ pageOps < MaxErrOps
    /\ \/ \E e \in BoundsErrors :
            /\ pageCall' = [op |-> "PageToCacheError", arg |-> e]
            /\ pageRet' = PageToCacheError(e)
       \/ \E e \in OtherPageErrors :
            /\ pageCall' = [op |-> "PageToCacheError", arg |-> e]
            /\ pageRet' = PageToCacheError(e)
    /\ pageOps' = pageOps + 1
    /\ UNCHANGED <<page, wrote, cacheVars>>

\* PageError::from(e) for a CacheError e.
ErrFromCache ==
    /\ pageOps < MaxErrOps
    /\ \E e \in CacheErrors :
         /\ pageCall' = [op |-> "CacheToPageError", arg |-> e]
         /\ pageRet' = CacheToPageError(e)
    /\ pageOps' = pageOps + 1
    /\ UNCHANGED <<page, wrote, cacheVars>>

ErrNext == ErrFromPage \/ ErrFromCache

\* Conversions between the two error types, one after another.
ErrSpec == PageInit /\ [][ErrNext]_vars

\* Threads t1 and t2 use one cache concurrently.
Init ==
    PageIdle /\ CacheInit(Capacities, {"FIFO"}, AttemptBudgets, MaxCalls, NoHist)

Next == \E t \in Threads : Step(t, PageIds)

Spec == Init /\ [][Next]_vars

ManagerNext == \E t \in Threads : ManagerStep(t, PageIds)

\* Threads t1 and t2 use one cache concurrently, through CacheManager only.
ManagerSpec == Init /\ [][ManagerNext]_vars

\* Calls made in a run of the specification of racing misses.
RaceMaxCalls == 4

\* The page ids asked for in it.
RacePageIds == {0, 1, 2}

\* A cache of two slots whose calls get two attempts each.
RaceInit ==
    PageIdle /\ CacheInit({2}, {"FIFO"}, {2}, RaceMaxCalls, NoHist)

RaceNext == \E t \in Threads : ManagerStep(t, RacePageIds)

\* Threads t1 and t2 read and write three pages through a CacheManager of two
\* slots.
RaceSpec == RaceInit /\ [][RaceNext]_vars

\* Thread t1 alone uses the cache.
SeqInit ==
    /\ PageIdle
    /\ CacheInit(SeqCapacities, EvictionPolicy, SeqAttemptBudgets, SeqMaxCalls,
                 <<>>)

SeqNext == Step("t1", SeqPageIds)

SeqSpec == SeqInit /\ [][SeqNext]_vars

\* Calls made in a run of the specification of the failing store.
FaultMaxCalls == 3

\* The page ids asked for in it: one the store answers well, one it does not.
FaultPageIds == {1} \cup OversizePageIds

FaultInit ==
    PageIdle /\ CacheInit({1, 2}, {"FIFO"}, {1, 2}, FaultMaxCalls, NoHist)

FaultNext == Step("t1", FaultPageIds)

\* Thread t1 alone uses a cache whose store returns too many bytes for one of
\* the pages.
FaultSpec == FaultInit /\ [][FaultNext]_vars

(***************************************************************************)
(* Properties of the cache.                                                *)
(***************************************************************************)

\* Thread t holds a read or write guard on slot s.
Holds(t, s) == t \in locks[s].readers \/ locks[s].writer = t

\* Thread t is inside fetch_entry / fetch_mut_entry (called directly or by the
\* manager) and has not been given a guard yet.
Fetching(t) == th[t].pc \notin {"idle", "holding", "panicked"}

\* Slot s holds the page the store delivered for id.
LoadedFor(s, id) == cache.entries[s].id = id /\ loaded[s] = {id}

Resident(id) == \E s \in Slots : LoadedFor(s, id)

\* C1 (Spec): a thread that was given a guard by fetch_entry(id) or
\* fetch_mut_entry(id) finds, when it is returned and for as long as it holds
\* it, the requested id in the guarded slot; a slot reused for another id
\* between the lookup and the locking is not returned.
C1_GuardHasRequestedId ==
    \A t \in Threads :
        th[t].pc = "holding" =>
            /\ Holds(t, th[t].idx)
            /\ cache.entries[th[t].idx].id = th[t].id

\* One thread holds the guard of a slot that it loaded for its id after the
\* lookup of another thread had found that slot for a different id.
C1_Witness ==
    \E t, u \in Threads :
        /\ th[t].pc = "hit"
        /\ cache.entries[th[t].idx].id # th[t].id
        /\ th[u].pc = "holding" /\ th[u].idx = th[t].idx
        /\ LoadedFor(th[u].idx, th[u].id)

\* fetch_entry / fetch_mut_entry, called directly, returns an error in this
\* step.
FetchReturnsErr(t) ==
    /\ th[t].op \in Ops \ ManagerOps
    /\ Fetching(t)
    /\ th'[t].pc = "idle"

\* C2 (Spec): a call of fetch_entry / fetch_mut_entry runs at most
\* max_fetch_attempts iterations of its loop and ends with a guard on a slot
\* with the requested id or with FetchFailure(id, max_fetch_attempts): it
\* ends with no other error and with no fault.
C2_GuardOrFetchFailure ==
    [][\A t \in Threads :
        /\ th'[t].iter <= cache.max_fetch_attempts
        /\ th'[t].pc = "holding" =>
             cache'.entries[th'[t].idx].id = th'[t].id
        /\ FetchReturnsErr(t) =>
             /\ th'[t].ret.err = "FetchFailure"
             /\ th'[t].ret.detail = <<th[t].id, cache.max_fetch_attempts>>
        /\ (Fetching(t) /\ th[t].op \in Ops \ ManagerOps) =>
             th'[t].pc # "panicked"
    ]_vars

\* C3 (SeqSpec): capacity 2, max_fetch_attempts 3, one thread: the request for
\* id 1 ends with id 1 loaded into slot 0, the following one for id 2 with id
\* 2 in slot 1, the following one for id 3 with id 3 in slot 0, and the
\* request for id 1 after that fetches from the store again (a fourth load).
C3_FifoScenario ==
    (/\ cache.capacity = 2 /\ cache.policy = "FIFO"
     /\ cache.max_fetch_attempts = 3
     /\ th["t1"].pc \in {"idle", "panicked"}
     /\ th["t1"].ret # Err("panic", "caller")) =>
        /\ hist = <<1>> =>
             /\ th["t1"].pc = "idle"
             /\ LoadedFor(0, 1) /\ evicted.n = 1
        /\ hist = <<1, 2>> =>
             /\ th["t1"].pc = "idle"
             /\ LoadedFor(0, 1) /\ LoadedFor(1, 2) /\ evicted.n = 2
        /\ hist = <<1, 2, 3>> =>
             /\ th["t1"].pc = "idle"
             /\ LoadedFor(0, 3) /\ LoadedFor(1, 2) /\ evicted.n = 3
        /\ hist = <<1, 2, 3, 1>> =>
             /\ th["t1"].pc = "idle"
             /\ LoadedFor(0, 3) /\ LoadedFor(1, 1) /\ evicted.n = 4

OnResident ==
    /\ th["t1"].pc \in {"lookup", "hit", "holding"}
    /\ th["t1"].iter = 1
    /\ Resident(th["t1"].id)

\* The frame of C5: a request for an id that is resident makes no step of
\* evict_and_replace (so no call of fetch_page_data_from_disk), leaves the
\* cursor and every slot's id as they are, and is given the slot loaded for
\* the id.
ResidentFrame ==
    /\ th'["t1"].pc \notin {"evict_load", "evict_store", "evict_wrap",
                           "evict_lock", "evict_fill", "exhausted"}
    /\ th'["t1"].pc = "panicked" => th'["t1"].ret.detail = "caller"
    /\ cache'.last_evict = cache.last_evict
    /\ evicted' = evicted
    /\ loaded' = loaded
    /\ \A s \in Slots : cache'.entries[s].id = cache.entries[s].id
    /\ th'["t1"].pc = "holding" => LoadedFor(th'["t1"].idx, th["t1"].id)

\* read_page_at(id, 0, 1) of a resident id returns in this step.
ResidentReadReturns ==
    /\ th["t1"].op = "read_page_at" /\ th["t1"].seek = 0
    /\ th'["t1"].pc = "idle"

\* C5 as stated (SeqSpec): a request for a resident id has the frame above
\* and read_page_at returns the bytes last loaded from the store for the id.
C5_ResidentReturnsLoaded ==
    [][OnResident =>
        /\ ResidentFrame
        /\ ResidentReadReturns =>
             th'["t1"].ret = Ok(<<fetch_page_data_from_disk(th["t1"].id)[1]>>)
    ]_vars

\* C5 amended (SeqSpec): a request for a resident id has the frame above and
\* read_page_at returns the current bytes of the slot loaded for the id: the
\* bytes last loaded, as changed by the writes made to the slot since (the
\* bytes no write touched are those the store delivered).
C5_ResidentHit ==
    [][OnResident =>
        /\ ResidentFrame
        /\ ResidentReadReturns =>
             \E s \in Slots :
                /\ LoadedFor(s, th["t1"].id)
                /\ th'["t1"].ret = Ok(<<cache.entries[s].page.data[0]>>)
                /\ cache.entries[s].page.data[0] \in
                     {fetch_page_data_from_disk(th["t1"].id)[1], 170}
                /\ \A i \in 1..(PAGE_SIZE - 1) :
                     cache.entries[s].page.data[i]
                       = fetch_page_data_from_disk(th["t1"].id)[i + 1]
    ]_vars

\* read_page_at of a resident id has returned the byte that a write made
\* after the load left in the slot, in a call made after the one that loaded
\* the id.
C5_Witness ==
    /\ th["t1"].pc = "idle"
    /\ Len(hist) >= 2
    /\ hist[Len(hist)] = hist[Len(hist) - 1]
    /\ th["t1"].ret = Ok(<<170>>)
    /\ Resident(hist[Len(hist)])
    /\ evicted.n = 1

\* C6 (Spec): a thread that is in no call (read_page_at / write_page_at has
\* returned, with a value or an error) holds no read or write lock, and only
\* a thread that was given a guard or is filling its victim holds one.
C6_NoLockAfterReturn ==
    \A t \in Threads : \A s \in Slots :
        Holds(t, s) => th[t].pc \in {"holding", "evict_fill"} /\ th[t].idx = s

\* write_page_at has returned the page's OutOfBoundsWrite and the thread
\* holds no lock.
C6_Witness ==
    \E t \in Threads :
        /\ th[t].pc = "idle"
        /\ ~th[t].ret.ok /\ th[t].ret.err = "OutOfBoundsWrite"
        /\ \A s \in Slots : ~Holds(t, s)

\* Thread t holds the guard that read_page_at / write_page_at was given and
\* is about to apply the page operation.
AtPage(t) == th[t].pc = "holding" /\ th[t].op \in ManagerOps

\* The byte range of thread t's manager call: its seek and its length.
RangeOutOfBounds(t) == ~(th[t].seek + Len(th[t].arg) <= PAGE_SIZE)

\* C14 (Spec): when read_page_at / write_page_at has reached the page and its
\* byte range is out of bounds, the call returns the page's own error,
\* OutOfBoundsRead for read_page_at and OutOfBoundsWrite for write_page_at
\* with the detail the page gave it (here: the end of the range), and no
\* slot's page has changed.
C14_BoundsErrorUnchanged ==
    [][\A t \in Threads :
        (AtPage(t) /\ RangeOutOfBounds(t) /\ th'[t].pc = "idle") =>
            /\ th'[t].ret =
                 Err(IF th[t].op = "read_page_at" THEN "OutOfBoundsRead"
                     ELSE "OutOfBoundsWrite", "Seek + Length")
            /\ cache'.entries = cache.entries
    ]_vars

\* read_page_at has returned OutOfBoundsRead from a slot loaded for its id.
C14_Witness ==
    \E t \in Threads :
        /\ th[t].pc = "idle"
        /\ ~th[t].ret.ok /\ th[t].ret.err = "OutOfBoundsRead"
        /\ \E s \in Slots : loaded[s] # {}

\* Thread t's read_page_at / write_page_at fails in this step inside
\* fetch_entry / fetch_mut_entry because the loop has used max_fetch_attempts
\* up.
ManagerExhausts(t) ==
    /\ th[t].op \in ManagerOps
    /\ th[t].pc = "exhausted"
    /\ th'[t].pc = "idle"

\* Thread t's read_page_at / write_page_at fails in this step inside
\* fetch_entry / fetch_mut_entry on a poisoned lock.
ManagerMeetsPoison(t) ==
    /\ th[t].op \in ManagerOps
    /\ th[t].pc \in {"hit", "evict_lock"}
    /\ th'[t].pc = "idle"

\* C15 as stated (Spec): a read_page_at / write_page_at that fails because
\* the fetch used max_fetch_attempts up returns FetchFailure(id,
\* max_fetch_attempts), and one that fails on a poisoned lock returns
\* PoisonedCacheEntry.
C15_CacheErrorReported ==
    [][\A t \in Threads :
        /\ ManagerExhausts(t) =>
             th'[t].ret = FetchFailure(th[t].id, cache.max_fetch_attempts)
        /\ ManagerMeetsPoison(t) => th'[t].ret = PoisonedCacheEntry
    ]_vars

\* C15 amended (Spec): both failures reach the caller of read_page_at /
\* write_page_at as PageError::Unknown, without the id and the attempts.
C15_CacheErrorCollapsed ==
    [][\A t \in Threads :
        (ManagerExhausts(t) \/ ManagerMeetsPoison(t)) =>
            th'[t].ret = Err("Unknown", <<>>)
    ]_vars

\* A manager call has returned Unknown from a cache that never had a
\* poisoned lock: its fetch ran out of attempts.
C15_Witness ==
    \E t \in Threads :
        /\ th[t].pc = "idle"
        /\ ~th[t].ret.ok /\ th[t].ret.err = "Unknown"
        /\ cache.max_fetch_attempts >= 1
        /\ \A s \in Slots : ~locks[s].poisoned

\* Thread t, inside fetch_entry / fetch_mut_entry, takes in this step a lock
\* that is poisoned: the read lock of the entry lookup is scanning, the lock
\* of the entry lookup found, or the write lock of the victim.
LocksPoisoned(t) ==
    /\ th'[t] # th[t]
    /\ \/ th[t].pc \in {"lookup", "hit"} /\ locks[th[t].idx].poisoned
       \/ /\ th[t].pc = "evict_lock"
          /\ cache.last_evict \in Slots
          /\ locks[cache.last_evict].poisoned

\* C16 (Spec): a call of fetch_entry / fetch_mut_entry that takes a poisoned
\* lock, in the lookup scan, on the hit path or in evict_and_replace, returns
\* PoisonedCacheEntry there: it does not go on as after a miss.
C16_PoisonReported ==
    [][\A t \in Threads :
        (th[t].op \in Ops \ ManagerOps /\ LocksPoisoned(t)) =>
            /\ th'[t].pc = "idle"
            /\ th'[t].ret = PoisonedCacheEntry
    ]_vars

\* C17 (Spec): after a caller failed while it held a slot's lock, the slot
\* stays usable for the others: a fetch that locks the slot on the hit path
\* or as its victim does not end with an error there.
C17_SlotUsableAfterPoison ==
    [][\A t \in Threads :
        (LocksPoisoned(t) /\ th[t].pc \in {"hit", "evict_lock"}) =>
            th'[t].pc # "idle"
    ]_vars

\* The id whose page slot s holds: the id it was last filled for.
OccupantOf(s) == CHOOSE id \in loaded[s] : TRUE

\* The backing store holds the bytes of slot s's page under the occupant's
\* id (the cache makes no call that writes to the store, so the store holds
\* for every id what fetch_page_data_from_disk returns for it).
StoreHolds(s) ==
    [i \in 1..PAGE_SIZE |-> cache.entries[s].page.data[i - 1]]
        = fetch_page_data_from_disk(OccupantOf(s))

\* C18 (SeqSpec): when evict_and_replace overwrites the page of a victim that
\* was filled from the store and is dirty, the backing store holds the victim's bytes (they were flushed),
\* so that a later fetch of the evicted id brings back what was written to it.
C18_FlushBeforeEvict ==
    [][\A s \in Slots :
        (/\ th["t1"].pc = "evict_fill" /\ th["t1"].idx = s
         /\ loaded[s] # {}
         /\ cache'.entries[s].page # cache.entries[s].page
         /\ is_dirty(cache.entries[s].page)) => StoreHolds(s)
    ]_vars

\* C19 (SeqSpec): with the LRU policy, evict_and_replace(id) chooses a victim,
\* loads id into it and returns normally: the call that misses goes on to
\* the victim and does not stop in a fault.
C19_LruEvicts ==
    [][(cache.policy = "LRU" /\ th["t1"].pc = "evict_load") =>
         th'["t1"].pc # "panicked"
    ]_vars

\* C20 (Spec): in every reachable state at most one slot is valid for any
\* PageId, valid meaning what the slot model says it means: the slot carries
\* the id and its page holds the content loaded for it.
C20_OneSlotPerId ==
    \A s1, s2 \in Slots :
        \A id \in PageIds :
            (LoadedFor(s1, id) /\ LoadedFor(s2, id)) => s1 = s2

\* C21 (Spec): lookup(id) returns the index of a slot only if, while lookup
\* held its read lock, the slot was valid and carried the requested id; on a
\* fresh cache it therefore finds no id, id 0 included.
C21_LookupValidOnly ==
    [][\A t \in Threads :
        (th[t].pc = "lookup" /\ th'[t].pc = "hit") =>
            /\ cache.entries[th[t].idx].valid
            /\ cache.entries[th[t].idx].id = th[t].id
    ]_vars

\* C22 (Spec): the guard a thread was given by fetch_entry(id) /
\* fetch_mut_entry(id) is on a slot whose page was loaded from the backing
\* store for id: a slot that was never loaded is not handed out.
C22_GuardOnLoadedSlot ==
    \A t \in Threads :
        th[t].pc = "holding" => loaded[th[t].idx] = {th[t].id}

\* evict_and_replace returns Ok(()) to the single thread in this step.
EvictReturnsOk ==
    /\ th["t1"].pc = "evict_fill"
    /\ th'["t1"].pc \in {"lookup", "exhausted"}

\* C23 (SeqSpec): when evict_and_replace(id) returns Ok, the victim slot in
\* the cache's entries has the id, valid = true and the bytes the store
\* returned for the id, and no other slot has changed since the eviction
\* took its victim.
C23_VictimReplacedInPlace ==
    [][EvictReturnsOk =>
        LET v == th["t1"].idx
        IN /\ cache'.entries[v].id = th["t1"].id
           /\ cache'.entries[v].valid
           /\ [i \in 1..PAGE_SIZE |-> cache'.entries[v].page.data[i - 1]]
                = fetch_page_data_from_disk(th["t1"].id)
           /\ \A s \in Slots \ {v} : cache'.entries[s] = cache.entries[s]
    ]_vars

\* C24 (Spec): a thread that has taken its victim and has yet to write the
\* fetched bytes holds the victim's write lock (so that nobody sees the slot
\* between the change of its id and the change of its page).
C24_LockHeldThroughFill ==
    \A t \in Threads :
        th[t].pc = "evict_fill" => locks[th[t].idx].writer = t

\* No slot's write lock is held together with a read lock.
WriterExcludes ==
    \A s \in Slots : locks[s].writer # None => locks[s].readers = {}

\* C25 (Spec): a slot's write lock is never held together with another lock
\* on the slot, and while a thread holds a guard it was given, no step of
\* another thread changes that slot's id, valid flag or page.
C25_GuardedSlotStable ==
    [][/\ WriterExcludes /\ WriterExcludes'
       /\ \A t \in Threads :
            (th[t].pc = "holding" /\ th'[t] = th[t]) =>
                /\ Holds(t, th[t].idx)
                /\ cache'.entries[th[t].idx] = cache.entries[th[t].idx]
    ]_vars

\* A thread holds a guard on the slot that another thread's eviction has
\* chosen as its victim and waits to write-lock.
C25_Witness ==
    \E t, u \in Threads :
        /\ build.place
        /\ th[t].pc = "holding"
        /\ th[u].pc = "evict_lock"
        /\ cache.last_evict = th[t].idx

\* C26 (Spec): the advance of the cursor last_evict is atomic: the value a
\* thread writes back is one more than the value the cursor has at that
\* moment (no increment of another thread is lost in between), and a thread
\* that has advanced the cursor finds in it the index of a slot.
C26_CursorAdvanceAtomic ==
    [][\A t \in Threads :
        /\ (th[t].pc = "evict_store" /\ th'[t].pc = "evict_wrap") =>
              cache'.last_evict = usize_add(cache.last_evict, 1)
        /\ (th[t].pc = "evict_lock" /\ th'[t] # th[t]) =>
              cache.last_evict \in Slots
    ]_vars

\* Thread t's step ends an iteration of the fetch loop without returning: it
\* goes back to the loop head, which starts the next iteration or finds the
\* budget spent.
IterationEnds(t) ==
    /\ th[t].pc \notin {"idle", "exhausted"}
    /\ \/ th'[t].iter = th[t].iter + 1
       \/ th'[t].pc = "exhausted"

\* C27 as stated (Spec): a call performs at most max_fetch_attempts evictions,
\* and every iteration of its loop that does not return to the caller has
\* performed one eviction.
C27_EvictOrReturn ==
    [][\A t \in Threads :
        /\ th'[t].evictions <= cache.max_fetch_attempts
        /\ IterationEnds(t) => th[t].evictions = th[t].iter
    ]_vars

\* C27 (Spec): a call runs at most max_fetch_attempts iterations and starts
\* at most one eviction in each, hence at most max_fetch_attempts evictions;
\* an iteration that ends without returning and without an eviction is one in
\* which the slot lookup reported held another id once it was locked.
C27_EvictionsBounded ==
    [][\A t \in Threads :
        /\ th'[t].iter <= cache.max_fetch_attempts
        /\ th'[t].evictions <= th'[t].iter
        /\ th'[t].evictions <= th[t].evictions + 1
        /\ (th'[t].evictions = th[t].evictions + 1) => th'[t].iter = th[t].iter
        /\ (IterationEnds(t) /\ th'[t].evictions = th[t].evictions
              /\ th[t].pc \notin {"evict_fill"}) =>
              /\ th[t].pc = "hit"
              /\ ~locks[th[t].idx].poisoned
              /\ ~guard_matches(cache.entries[th[t].idx], th[t].id)
    ]_vars

\* A call is in an iteration before which it ended one on a stale hit, and it
\* has used its whole budget of iterations.
C27_Witness ==
    \E t \in Threads :
        /\ th[t].pc = "lookup"
        /\ th[t].iter = cache.max_fetch_attempts
        /\ th[t].iter = 2
        /\ th[t].evictions = 0

\* C28 (SeqSpec): the first eviction on a new FIFO cache advances the cursor
\* from usize::MAX to 0 without a fault, and takes slot 0 as its victim.
C28_FirstEvictionSlotZero ==
    [][\A t \in Threads :
        /\ (cache.policy = "FIFO" /\ th[t].pc = "evict_store"
              /\ th[t].tmp = USIZE_MAX /\ th'[t] # th[t]) =>
              /\ th'[t].pc # "panicked"
              /\ cache'.last_evict = 0
        /\ (evicted.n = 0 /\ evicted'.n = 1) => evicted'.victim = 0
    ]_vars

\* C29 (ErrSpec): From<PageError> for CacheError takes OutOfBoundsRead to
\* FailedCacheRead, OutOfBoundsWrite to FailedCacheWrite and every other
\* variant to Unknown; From<CacheError> for PageError takes LookupFailure(id)
\* to PageNotFound(id) with the same id and every other variant to Unknown.
C29_ConversionVariants ==
    /\ pageCall.op = "PageToCacheError" =>
          pageRet.err =
             IF pageCall.arg.err = "OutOfBoundsRead" THEN "FailedCacheRead"
             ELSE IF pageCall.arg.err = "OutOfBoundsWrite"
                  THEN "FailedCacheWrite"
             ELSE "Unknown"
    /\ pageCall.op = "CacheToPageError" =>
          IF pageCall.arg.err = "LookupFailure"
          THEN /\ pageRet.err = "PageNotFound"
               /\ pageRet.detail = pageCall.arg.detail
          ELSE pageRet = Err("Unknown", <<>>)

\* LookupFailure(1) has been converted, as the second conversion or later.
C29_Witness ==
    /\ pageOps > 1
    /\ pageCall.op = "CacheToPageError"
    /\ pageCall.arg = LookupFailure(1)
    /\ pageRet.err = "PageNotFound"

\* The slots whose lock thread t holds.
HeldBy(t) == {s \in Slots : Holds(t, s)}

\* Every thread holds at most one slot lock.
OneLockPerThread == \A t \in Threads : Cardinality(HeldBy(t)) <= 1

\* C30 (ManagerSpec): with every caller going through read_page_at /
\* write_page_at, a thread holds at most one slot lock at any moment and
\* every call returns to its caller: none ends in a panic, which never
\* returns.
C30_OneLockAndReturns ==
    /\ OneLockPerThread
    /\ \A t \in Threads : th[t].pc # "panicked"

\* The positions of a thread inside evict_and_replace.
EvictPcs == {"evict_load", "evict_store", "evict_wrap", "evict_lock",
             "evict_fill"}

\* C31 (SeqSpec): on a FIFO cache with max_fetch_attempts = 1, a call of
\* fetch_entry / fetch_mut_entry for an id that is not resident misses, runs
\* the eviction to its end, leaves the page resident and returns
\* FetchFailure(id, 1); it is never given a guard.
C31_SingleAttemptMiss ==
    [][LET r == th["t1"]
           q == th'["t1"]
       IN (/\ cache.policy = "FIFO" /\ cache.max_fetch_attempts = 1
           /\ r.op \in {"fetch_entry", "fetch_mut_entry"}
           /\ q # r) =>
            /\ (r.pc = "lookup" /\ ~Resident(r.id)) =>
                  q.pc \in {"lookup", "evict_load"}
            /\ (r.pc \in EvictPcs \ {"evict_fill"}) => q.pc \in EvictPcs
            /\ r.pc = "evict_fill" =>
                  /\ q.pc = "exhausted"
                  /\ \E s \in Slots : /\ cache'.entries[s].id = r.id
                                      /\ loaded'[s] = {r.id}
            /\ r.pc = "exhausted" => q.ret = FetchFailure(r.id, 1)
    ]_vars

C33_FailedFillNotUndone ==
    [][LET r == th["t1"]
           v == r.idx
       IN (/\ r.pc = "evict_fill"
           /\ r.op \in {"fetch_entry", "fetch_mut_entry"}
           /\ Len(fetch_page_data_from_disk(r.id)) > PAGE_SIZE
           /\ th'["t1"] # r) =>
            /\ th'["t1"].pc = "idle"
            /\ ~th'["t1"].ret.ok
            /\ th'["t1"].ret.err = "FailedCacheWrite"
            /\ cache'.last_evict = v
            /\ cache'.entries[v].id = r.id
            /\ cache'.entries[v].page = cache.entries[v].page
    ]_vars

\* C34 (Spec): every slot that holds a page loaded from the store reports
\* is_dirty(), from the moment of the load on and whether or not a caller has
\* written to it.
C34_LoadedIsDirty ==
    \A s \in Slots : loaded[s] # {} => is_dirty(cache.entries[s].page)

\* Page 1 has just been loaded into a slot: the slot holds the store's bytes,
\* which no caller has written over, no thread holds its lock, and the thread
\* that loaded it has not looked it up yet.
C34_Witness ==
    \E s \in Slots, t \in Threads :
        /\ loaded[s] = {1}
        /\ locks[s].writer = None /\ locks[s].readers = {}
        /\ [i \in 1..PAGE_SIZE |-> cache.entries[s].page.data[i - 1]]
             = fetch_page_data_from_disk(1)
        /\ th[t].pc = "lookup" /\ th[t].id = 1 /\ th[t].iter = 2
        /\ th[t].idx = 0 /\ th[t].evictions = 1

\* Thread t is between reading the cursor and having wrapped it.
AdvancingCursor(t) == th'[t].pc \in {"evict_load", "evict_store", "evict_wrap"}

\* C35 (Spec): on a FIFO cache, whenever a thread leaves evict_and_replace
\* (with Ok, with an error or by a panic) and no other thread is in the middle
\* of advancing the cursor, 0 <= last_evict < capacity; and entries has
\* capacity slots in every state.
C35_CursorInRange ==
    [][/\ Cardinality(DOMAIN cache'.entries) = cache'.capacity
       /\ \A t \in Threads :
            (/\ cache.policy = "FIFO"
             /\ th[t].pc \in EvictPcs
             /\ th'[t].pc \notin EvictPcs
             /\ \A u \in Threads \ {t} : ~AdvancingCursor(u)) =>
                cache'.last_evict \in Slots
    ]_vars

(***************************************************************************)
(* Properties of the page operations (checked under PageSpec).             *)
(***************************************************************************)

\* The range [seek, seek + length) lies within the page (in the integers).
InBounds(seek, length) ==
    seek <= PAGE_SIZE /\ length <= PAGE_SIZE /\ seek + length <= PAGE_SIZE

\* C7: read_at(seek, length) returns OutOfBoundsRead exactly when seek >
\* PAGE_SIZE or length > PAGE_SIZE or seek + length > PAGE_SIZE; otherwise it
\* returns the length bytes at [seek, seek + length); either way the page's
\* bytes and dirty flag are unchanged.
C7_ReadAtBounds ==
    [][pageCall'.op = "read_at" =>
        LET s == pageCall'.seek
            n == pageCall'.length
        IN /\ page' = page
           /\ ~InBounds(s, n) =>
                 ~pageRet'.ok /\ pageRet'.err = "OutOfBoundsRead"
           /\ InBounds(s, n) =>
                 /\ pageRet'.ok
                 /\ Len(pageRet'.val) = n
                 /\ \A k \in 0..(n - 1) : pageRet'.val[k + 1] = page.data[s + k]
    ]_vars

\* A read of a written page refused only for the end of its range.
C7_Witness ==
    /\ pageCall.op = "read_at"
    /\ pageCall.seek <= PAGE_SIZE /\ pageCall.length <= PAGE_SIZE
    /\ ~pageRet.ok /\ pageRet.err = "OutOfBoundsRead"
    /\ page.dirty

\* C8: write_at(seek, data) out of bounds returns OutOfBoundsWrite and leaves
\* every byte of the page and the dirty flag as they were.
C8_WriteAtOutOfBounds ==
    [][(pageCall'.op = "write_at"
          /\ ~InBounds(pageCall'.seek, Len(pageCall'.data))) =>
        /\ ~pageRet'.ok /\ pageRet'.err = "OutOfBoundsWrite"
        /\ page' = page
    ]_vars

\* A non-empty write that starts inside the page and runs over its end, refused, on a
\* page that an earlier write has filled.
C8_Witness ==
    /\ pageCall.op = "write_at"
    /\ pageCall.seek < PAGE_SIZE /\ Len(pageCall.data) \in 1..PAGE_SIZE
    /\ ~pageRet.ok /\ pageRet.err = "OutOfBoundsWrite"
    /\ page.dirty

\* C9: for seek + data.len() <= PAGE_SIZE, write_at(seek, data) succeeds and an
\* immediately following read_at(seek, data.len()) returns exactly data.
C9_WriteThenRead ==
    [][/\ (pageCall'.op = "write_at"
             /\ pageCall'.seek + Len(pageCall'.data) <= PAGE_SIZE)
          => pageRet'.ok
       /\ (/\ pageCall.op = "write_at"
           /\ pageCall.seek + Len(pageCall.data) <= PAGE_SIZE
           /\ pageCall'.op = "read_at"
           /\ pageCall'.seek = pageCall.seek
           /\ pageCall'.length = Len(pageCall.data))
          => pageRet' = Ok(pageCall.data)
    ]_vars

\* A read that followed a write of two or more bytes over earlier content and
\* returned them.
C9_Witness ==
    /\ pageCall.op = "read_at" /\ pageRet.ok
    /\ pageOps >= 2
    /\ Len(pageRet.val) >= 2
    /\ pageRet.val[1] = 254 /\ pageRet.val[2] = 255
    /\ pageCall.seek > 0

\* C10: a successful write_at(seek, data) changes only the bytes at
\* [seek, seek + data.len()): every byte outside the range keeps its value.
C10_WriteAtFrame ==
    [][(pageCall'.op = "write_at" /\ pageRet'.ok) =>
        \A i \in 0..(PAGE_SIZE - 1) :
            (i < pageCall'.seek \/ i >= pageCall'.seek + Len(pageCall'.data))
              => page'.data[i] = page.data[i]
    ]_vars

\* A successful non-empty write into a page that holds bytes of an earlier
\* write on both sides of the written range.
C10_Witness ==
    /\ pageCall.op = "write_at" /\ pageRet.ok
    /\ Len(pageCall.data) >= 1
    /\ pageCall.seek >= 1
    /\ pageCall.seek + Len(pageCall.data) < PAGE_SIZE
    /\ page.data[pageCall.seek - 1] # 0
    /\ page.data[pageCall.seek + Len(pageCall.data)] # 0

\* C11: over any sequence of read_at, write_at (succeeding or failing) and
\* is_dirty on one page, the dirty flag, and what is_dirty() returns, is true
\* exactly when a write_at has succeeded since allocate(); once true it stays
\* true.
C11_DirtyIffWritten ==
    [][/\ is_dirty(page) = wrote
       /\ is_dirty(page') = wrote'
       /\ is_dirty(page) => is_dirty(page')
       /\ pageCall'.op = "is_dirty" => pageRet' = Ok(wrote)
    ]_vars

\* A write_at was refused on a page that an earlier write_at had made dirty,
\* and the page is still dirty.
C11_Witness ==
    /\ pageCall.op = "write_at"
    /\ ~pageRet.ok
    /\ wrote
    /\ is_dirty(page)

\* C12: the first operation on a page fresh from allocate() finds it zero at
\* every position it reads (read_at(0, PAGE_SIZE) returns PAGE_SIZE zeroes)
\* and is_dirty() returns false.
C12_AllocateZeroClean ==
    pageOps = 1 =>
        /\ (pageCall.op = "read_at" /\ pageRet.ok) =>
              \A k \in 1..pageCall.length : pageRet.val[k] = 0
        /\ (pageCall.op = "read_at" /\ pageCall.seek = 0
              /\ pageCall.length = PAGE_SIZE) =>
              pageRet = Ok([k \in 1..PAGE_SIZE |-> 0])
        /\ pageCall.op = "is_dirty" => pageRet = Ok(FALSE)

\* The whole of a fresh page has been read.
C12_Witness ==
    /\ pageOps = 1
    /\ pageCall.op = "read_at"
    /\ pageCall.seek = 0 /\ pageCall.length = PAGE_SIZE
    /\ pageRet.ok /\ Len(pageRet.val) = PAGE_SIZE

\* The seek and the length of the access just made.
AccessSeek == pageCall'.seek
AccessLength ==
    IF pageCall'.op = "read_at" THEN pageCall'.length ELSE Len(pageCall'.data)

\* C13: a read_at or write_at whose range ends exactly at PAGE_SIZE succeeds
\* (write_at(PAGE_SIZE - 2, [x, y]), and seek = PAGE_SIZE with length 0); one
\* whose range ends at PAGE_SIZE + 1 (write_at(PAGE_SIZE - 1, [x, y])) returns
\* OutOfBoundsRead, respectively OutOfBoundsWrite.
C13_EndpointAllowed ==
    [][pageCall'.op \in {"read_at", "write_at"} =>
        /\ AccessSeek + AccessLength = PAGE_SIZE => pageRet'.ok
        /\ AccessSeek + AccessLength = PAGE_SIZE + 1 =>
              /\ ~pageRet'.ok
              /\ pageRet'.err = IF pageCall'.op = "read_at"
                                THEN "OutOfBoundsRead" ELSE "OutOfBoundsWrite"
        /\ (pageCall'.op = "write_at" /\ AccessSeek = PAGE_SIZE - 2
              /\ AccessLength = 2) =>
              /\ pageRet'.ok
              /\ page'.data[PAGE_SIZE - 2] = pageCall'.data[1]
              /\ page'.data[PAGE_SIZE - 1] = pageCall'.data[2]
    ]_vars

\* A write of no bytes at seek = PAGE_SIZE has succeeded.
C13_Witness ==
    /\ pageCall.op = "write_at"
    /\ pageCall.seek = PAGE_SIZE /\ pageCall.data = <<>>
    /\ pageRet.ok

====
